---- MODULE Spec2Model ----
(***************************************************************************)
(* mqtt-tail: the subscriber of src/subscriber.js (src/unnamed/part_002).  *)
(* connect(topics, opts) compiles the filters, opens the broker            *)
(* connection and registers one handler per client event; the handlers run *)
(* to completion, one event at a time.  The state is the closure of        *)
(* connect(), the two output channels, the requests handed to the mqtt     *)
(* client and the process status.                                          *)
(* The pure functions around it (the configuration resolver of config.js   *)
(* and index.js, buildBrokerUrl, the setup wizard's entry test and the     *)
(* formatter) are called once each on every input of a bounded universe.   *)
(***************************************************************************)
EXTENDS Integers, Sequences, FiniteSets, TLC

(* ------------------------------ bounds --------------------------------- *)

\* largest value of --count that is explored
MaxCount == 2
\* number of 'connect' events (handshakes) the broker grants in one run
MaxHandshakes == 2
\* number of 'reconnect' events in one run
MaxReconnects == 1
\* number of 'error' events in one run
MaxErrors == 1
\* number of SIGINT/SIGTERM deliveries in one run
MaxSignals == 2

\* longest payload handed to the formatter
MaxPayloadLen == 3
\* longest .env file content, in characters
MaxEnvLen == 4

\* 'message' events in one run: one more than the largest limit
MaxDeliveries == MaxCount + 1

(* ------------------------------ values --------------------------------- *)

\* maxMessages when --count is absent (part_002 line 71); Len(stdout) never reaches it
Infinity == -1

NoExit == "none"

\* no pure function is being called
NoCall == [fn |-> "none"]

\* a filter option as the config resolver hands it over: null, undefined or a string
NullPattern == [tag |-> "null", src |-> <<>>]
UndefinedPattern == [tag |-> "undefined", src |-> <<>>]
Str(s) == [tag |-> "string", src |-> s]

\* JavaScript truthiness of a filter option: null, undefined and '' are falsy
Truthy(pattern) == pattern.tag = "string" /\ Len(pattern.src) > 0

\* new RegExp(src) throws a SyntaxError on an unterminated group
SyntaxValid(src) == \A i \in 1..Len(src) : src[i] # "("

\* the compiled filter: null, or a RegExp object with its source
NullFilter == [isNull |-> TRUE, src |-> <<>>]
RegExpOf(src) == [isNull |-> FALSE, src |-> src]

\* the pattern p (literals and '.') matches s at position k
MatchAt(p, s, k) ==
    /\ k + Len(p) - 1 <= Len(s)
    /\ \A i \in 1..Len(p) : p[i] = "." \/ p[i] = s[k + i - 1]

\* RegExp.prototype.test: unanchored search, '^' anchors at the start,
\* literal characters are compared case-sensitively
RegExpTest(re, s) ==
    IF Len(re.src) > 0 /\ Head(re.src) = "^"
    THEN MatchAt(Tail(re.src), s, 1)
    ELSE \E k \in 1..(Len(s) + 1) : MatchAt(re.src, s, k)

\* Buffer.prototype.toString(): the bytes decoded as text
Chr(b) ==
    CASE b = 97 -> "a" [] b = 98 -> "b" [] b = 65 -> "A"
      [] b = 10 -> "\n" [] b = 49 -> "1" [] b = 120 -> "x" [] OTHER -> "?"
PayloadToString(payload) == [i \in 1..Len(payload) |-> Chr(payload[i])]

\* formatMessage(topic, payload, packet, opts): the text of one message
FormatMessage(m) == <<m.topic, PayloadToString(m.payload)>>

\* number of entries of the log s that are in the set K
RECURSIVE CountOf(_, _)
CountOf(s, K) ==
    IF s = <<>> THEN 0
    ELSE (IF Head(s) \in K THEN 1 ELSE 0) + CountOf(Tail(s), K)

\* the entries of the log s that are in the set K, in order
RECURSIVE Restrict(_, _)
Restrict(s, K) ==
    IF s = <<>> THEN <<>>
    ELSE (IF Head(s) \in K THEN <<Head(s)>> ELSE <<>>) \o Restrict(Tail(s), K)

(* ------------------------------- state --------------------------------- *)

VARIABLES
    pc,              \* "init" before connect() ran, "running", "exited"
    exitCode,        \* argument of the process.exit that ended the process
    optCount,        \* opts.count (0: not given)
    optRetained,     \* opts.retained: "true", "false", "undefined"
    optFilter,       \* opts.filter
    optPayloadFilter,\* opts.payloadFilter
    verbose,         \* opts.verbose
    optQos,          \* opts.qos: "undefined" or the text given to --qos
    tlsFiles,        \* opts.ca/cert/key: "none" given, all "readable", one "unreadable"
    topicFilter,     \* compileFilter(opts.filter)
    payloadFilter,   \* compileFilter(opts.payloadFilter)
    maxMessages,     \* const maxMessages
    messageCount,    \* let messageCount
    reconnectCount,  \* let reconnectCount
    everConnected,   \* let everConnected
    offlineShown,    \* let offlineShown
    delivered,       \* the 'message' events the client emitted, in order
    stdout,          \* lines written to process.stdout
    notices,         \* connection notices written to process.stderr, in order
    lines,           \* other status lines written to process.stderr, counted by kind
    dbgWritten,      \* whether dbg() wrote a [debug] line to process.stderr
    requested,       \* the client.subscribe requests issued, in order
    subscribes,      \* client.subscribe requests not yet answered
    subscribed,      \* the broker granted a subscription on the present connection
    endRequests,     \* client.end requests handed to the client
    phase,           \* the client's connection: CONNECTING, CONNECTED, OFFLINE
    hist,            \* handshakes "H" and unbroken offline intervals "L", in order
    signals,         \* signals delivered so far
    errors,          \* 'error' events delivered so far
    call             \* a call of one of the pure functions: its arguments and result

vars == <<pc, exitCode, optCount, optRetained, optFilter, optPayloadFilter, verbose,
          topicFilter, payloadFilter, maxMessages, messageCount, reconnectCount,
          everConnected, offlineShown, delivered, stdout, notices, lines, dbgWritten,
          subscribes, subscribed, endRequests, phase, hist, signals, errors, tlsFiles,
          call, optQos, requested>>

stderr == <<notices, lines>>
opts == <<optCount, optRetained, optFilter, optPayloadFilter, verbose, tlsFiles,
          optQos>>
closure == <<topicFilter, payloadFilter, maxMessages, messageCount, reconnectCount,
             everConnected, offlineShown>>

(* ------------------------------ inputs --------------------------------- *)

\* the topics handed to connect(): program.args, or ['#'] (index.js line 74)
topics == <<"s/+", "c/#">>

TopicTexts == {<<"a">>, <<"b", "a">>}
PayloadBytes == {<<97>>, <<98, 65>>}
\* every MessageEvent of the bounded universe
Messages == [topic : TopicTexts, payload : PayloadBytes, retain : BOOLEAN]
\* the MessageEvents of the lifecycle specification
FewMessages == {[topic |-> <<"a">>, payload |-> <<97>>, retain |-> FALSE],
                [topic |-> <<"b", "a">>, payload |-> <<98, 65>>, retain |-> TRUE]}

Patterns == {NullPattern, UndefinedPattern, Str(<<>>), Str(<<"a">>),
             Str(<<"^", "b">>), Str(<<"A">>), Str(<<"(">>)}
FewPatterns == {UndefinedPattern, Str(<<"a">>), Str(<<"(">>)}

(* ----------------------------- builders -------------------------------- *)

\* the kinds of status line that are counted
LineKinds == {"Connecting", "InvalidRegex", "SubscribeError", "Watching", "Blank",
              "Error", "Disconnecting", "Uncaught"}
\* process.stderr.write of n lines of kind k
Write(k, n) == lines' = [lines EXCEPT ![k] = @ + n]

\* dbg(opts, msg): a [debug] line on stderr when opts.verbose
Dbg == dbgWritten' = (dbgWritten \/ verbose)

\* compileFilter swallowing the SyntaxError
CompileOk_Swallowed(pattern) == TRUE
\* compileFilter returns (null or a RegExp) unless new RegExp throws
CompileOk(pattern) == ~Truthy(pattern) \/ SyntaxValid(pattern.src)
compileFilter(pattern) ==
    IF ~Truthy(pattern) THEN NullFilter ELSE RegExpOf(pattern.src)

\* process.exit(code) from inside a handler
Exit(code) == pc' = "exited" /\ exitCode' = code

\* the three stages of the message handler, in the order of the early returns
\* the retained stage without the test of opts.retained
DroppedRetained_Always(m) == m.retain
DroppedRetained(m) == optRetained = "false" /\ m.retain
DroppedTopic(m) == ~topicFilter.isNull /\ ~RegExpTest(topicFilter, m.topic)
DroppedPayload(m) ==
    ~payloadFilter.isNull /\ ~RegExpTest(payloadFilter, PayloadToString(m.payload))
\* the topic and payload stages composed as an alternative
Passes_EitherFilter(m) ==
    ~DroppedRetained(m) /\ (~DroppedTopic(m) \/ ~DroppedPayload(m))
Passes(m) == ~DroppedRetained(m) /\ ~DroppedTopic(m) /\ ~DroppedPayload(m)

\* parseInt(opts.qos ?? 0, 10)
ParseQos(q) == CASE q = "undefined" -> 0 [] q = "0" -> 0 [] q = "1" -> 1 [] q = "2" -> 2

\* Object.fromEntries(topics.map((t) => [t, { qos }])): the batch handed to
\* client.subscribe
subscribeTopics ==
    [t \in {topics[i] : i \in 1..Len(topics)} |-> [qos |-> ParseQos(optQos)]]

LimitReached(count) == maxMessages # Infinity /\ count >= maxMessages

(* ------------------------------ actions -------------------------------- *)

Init ==
    /\ pc = "init"
    /\ exitCode = NoExit
    /\ optCount \in 0..MaxCount
    /\ optRetained \in {"undefined", "false"}
    /\ optFilter \in FewPatterns
    /\ optPayloadFilter \in {NullPattern}
    /\ verbose \in BOOLEAN
    /\ optQos = "undefined"
    /\ tlsFiles \in {"none", "unreadable"}
    /\ topicFilter = NullFilter
    /\ payloadFilter = NullFilter
    /\ maxMessages = Infinity
    /\ messageCount = 0
    /\ reconnectCount = 0
    /\ everConnected = FALSE
    /\ offlineShown = FALSE
    /\ delivered = <<>>
    /\ stdout = <<>>
    /\ notices = <<>>
    /\ lines = [k \in LineKinds |-> 0]
    /\ dbgWritten = FALSE
    /\ requested = <<>>
    /\ subscribes = 0
    /\ subscribed = FALSE
    /\ endRequests = 0
    /\ phase = "INIT"
    /\ hist = <<>>
    /\ signals = 0
    /\ errors = 0
    /\ call = NoCall

\* connect(topics, opts) up to the registration of the handlers
Start ==
    /\ pc = "init"
    /\ Dbg
    /\ IF tlsFiles = "unreadable"
       THEN \* readFile rejects inside buildConnectOptions: connect() rejects, the
            \* top-level await of index.js throws, node prints the error and exits 1
            /\ Write("Uncaught", 1)
            /\ Exit(1)
            /\ UNCHANGED <<topicFilter, payloadFilter, maxMessages, phase>>
       ELSE IF ~CompileOk(optFilter) \/ ~CompileOk(optPayloadFilter)
       THEN /\ Write("InvalidRegex", 1)
            /\ Exit(1)
            /\ UNCHANGED <<topicFilter, payloadFilter, maxMessages, phase>>
       ELSE /\ topicFilter' = compileFilter(optFilter)
            /\ payloadFilter' = compileFilter(optPayloadFilter)
            /\ maxMessages' = (IF optCount # 0 THEN optCount ELSE Infinity)
            /\ Write("Connecting", 1)
            /\ phase' = "CONNECTING"
            /\ pc' = "running"
            /\ UNCHANGED exitCode
    /\ UNCHANGED <<opts, call, requested, subscribed, messageCount, reconnectCount, everConnected,
                   offlineShown, delivered, stdout, notices, subscribes, endRequests,
                   hist, signals, errors>>

\* the 'connect' handler without the assignment everConnected = true
OnConnect_ForgetsConnected ==
    /\ pc = "running"
    /\ phase = "CONNECTING"
    /\ CountOf(hist, {"H"}) < MaxHandshakes
    /\ Dbg
    /\ notices' = Append(notices, IF everConnected THEN "Reconnected" ELSE "Connected")
    /\ offlineShown' = FALSE
    /\ requested' = Append(requested, subscribeTopics)
    /\ subscribes' = subscribes + 1
    /\ phase' = "CONNECTED"
    /\ hist' = Append(hist, "H")
    /\ UNCHANGED <<pc, exitCode, opts, call, subscribed, topicFilter, payloadFilter, maxMessages,
                   messageCount, reconnectCount, everConnected, delivered, stdout,
                   lines, endRequests, signals, errors>>

\* the 'connect' handler subscribing on the first handshake only
OnConnect_SubscribesOnce ==
    /\ pc = "running"
    /\ phase = "CONNECTING"
    /\ CountOf(hist, {"H"}) < MaxHandshakes
    /\ Dbg
    /\ notices' = Append(notices, IF everConnected THEN "Reconnected" ELSE "Connected")
    /\ everConnected' = TRUE
    /\ offlineShown' = FALSE
    /\ IF everConnected
       THEN UNCHANGED <<requested, subscribes>>
       ELSE /\ requested' = Append(requested, subscribeTopics)
            /\ subscribes' = subscribes + 1
    /\ phase' = "CONNECTED"
    /\ hist' = Append(hist, "H")
    /\ UNCHANGED <<pc, exitCode, opts, call, subscribed, topicFilter, payloadFilter,
                   maxMessages, messageCount, reconnectCount, delivered, stdout, lines,
                   endRequests, signals, errors>>

\* the 'connect' handler starting the count of forwarded messages afresh
OnConnect_ResetsCount ==
    /\ pc = "running"
    /\ phase = "CONNECTING"
    /\ CountOf(hist, {"H"}) < MaxHandshakes
    /\ Dbg
    /\ notices' = Append(notices, IF everConnected THEN "Reconnected" ELSE "Connected")
    /\ everConnected' = TRUE
    /\ messageCount' = 0
    /\ offlineShown' = FALSE
    /\ requested' = Append(requested, subscribeTopics)
    /\ subscribes' = subscribes + 1
    /\ phase' = "CONNECTED"
    /\ hist' = Append(hist, "H")
    /\ UNCHANGED <<pc, exitCode, opts, call, subscribed, topicFilter, payloadFilter, maxMessages,
                   reconnectCount, delivered, stdout, lines,
                   endRequests, signals, errors>>

\* client.on('connect')
OnConnect ==
    /\ pc = "running"
    /\ phase = "CONNECTING"
    /\ CountOf(hist, {"H"}) < MaxHandshakes
    /\ Dbg
    /\ notices' = Append(notices, IF everConnected THEN "Reconnected" ELSE "Connected")
    /\ everConnected' = TRUE
    /\ offlineShown' = FALSE
    /\ requested' = Append(requested, subscribeTopics)
    /\ subscribes' = subscribes + 1
    /\ phase' = "CONNECTED"
    /\ hist' = Append(hist, "H")
    /\ UNCHANGED <<pc, exitCode, opts, call, subscribed, topicFilter, payloadFilter, maxMessages,
                   messageCount, reconnectCount, delivered, stdout, lines,
                   endRequests, signals, errors>>

\* the subscribe callback reporting the error without process.exit(1)
OnSubscribed_NoExit(err) ==
    /\ pc = "running"
    /\ subscribes > 0
    /\ subscribes' = subscribes - 1
    /\ IF err
       THEN /\ Write("SubscribeError", 1)
            /\ UNCHANGED <<dbgWritten, subscribed>>
       ELSE /\ lines' = [lines EXCEPT !["Watching"] = @ + Len(topics),
                                          !["Blank"] = @ + 1]
            /\ Dbg
            /\ subscribed' = TRUE
    /\ UNCHANGED <<pc, exitCode, opts, call, requested, closure, delivered, stdout, notices,
                   endRequests, phase, hist, signals, errors>>

\* the callback of client.subscribe
OnSubscribed(err) ==
    /\ pc = "running"
    /\ subscribes > 0
    /\ subscribes' = subscribes - 1
    /\ IF err
       THEN /\ Write("SubscribeError", 1)
            /\ Exit(1)
            /\ UNCHANGED <<dbgWritten, subscribed>>
       ELSE /\ lines' = [lines EXCEPT !["Watching"] = @ + Len(topics),
                                          !["Blank"] = @ + 1]
            /\ Dbg
            /\ subscribed' = TRUE
            /\ UNCHANGED <<pc, exitCode>>
    /\ UNCHANGED <<opts, call, requested, closure, delivered, stdout, notices, endRequests, phase,
                   hist, signals, errors>>

\* the 'reconnect' handler clearing offlineShown at every attempt
OnReconnect_ResetsNotice ==
    /\ pc = "running"
    /\ phase = "OFFLINE"
    /\ reconnectCount < MaxReconnects
    /\ reconnectCount' = reconnectCount + 1
    /\ offlineShown' = FALSE
    /\ Dbg
    /\ phase' = "CONNECTING"
    /\ UNCHANGED <<pc, exitCode, opts, call, requested, subscribed, topicFilter, payloadFilter,
                   maxMessages, messageCount, everConnected, delivered, stdout,
                   stderr, subscribes, endRequests, hist, signals, errors>>

\* the 'reconnect' handler subscribing anew at every attempt
OnReconnect_Resubscribes ==
    /\ pc = "running"
    /\ phase = "OFFLINE"
    /\ reconnectCount < MaxReconnects
    /\ reconnectCount' = reconnectCount + 1
    /\ requested' = Append(requested, subscribeTopics)
    /\ Dbg
    /\ phase' = "CONNECTING"
    /\ UNCHANGED <<pc, exitCode, opts, call, subscribed, topicFilter, payloadFilter,
                   maxMessages, messageCount, everConnected, offlineShown, delivered,
                   stdout, stderr, subscribes, endRequests, hist, signals, errors>>

\* client.on('reconnect')
OnReconnect ==
    /\ pc = "running"
    /\ phase = "OFFLINE"
    /\ reconnectCount < MaxReconnects
    /\ reconnectCount' = reconnectCount + 1
    /\ Dbg
    /\ phase' = "CONNECTING"
    /\ UNCHANGED <<pc, exitCode, opts, call, requested, subscribed, topicFilter, payloadFilter, maxMessages,
                   messageCount, everConnected, offlineShown, delivered, stdout,
                   stderr, subscribes, endRequests, hist, signals, errors>>

\* the 'error' handler treating the error as fatal
OnError_Fatal(hasStack) ==
    /\ pc = "running"
    /\ errors < MaxErrors
    /\ errors' = errors + 1
    /\ Write("Error", 1)
    /\ dbgWritten' = (dbgWritten \/ (verbose /\ hasStack))
    /\ Exit(1)
    /\ UNCHANGED <<opts, call, requested, subscribed, closure, delivered, stdout, notices,
                   subscribes, endRequests, phase, hist, signals>>

\* client.on('error')
OnError(hasStack) ==
    /\ pc = "running"
    /\ errors < MaxErrors
    /\ errors' = errors + 1
    /\ Write("Error", 1)
    /\ dbgWritten' = (dbgWritten \/ (verbose /\ hasStack))
    /\ UNCHANGED <<pc, exitCode, opts, call, requested, subscribed, closure, delivered, stdout, notices, subscribes,
                   endRequests, phase, hist, signals>>

\* client.on('close') and client.on('disconnect')
OnClose ==
    /\ pc = "running"
    /\ Dbg
    /\ UNCHANGED <<pc, exitCode, opts, call, requested, subscribed, closure, delivered, stdout, stderr,
                   subscribes, endRequests, phase, hist, signals, errors>>

\* the 'offline' handler without the assignment offlineShown = true
OnOffline_NoLatch ==
    /\ pc = "running"
    /\ Dbg
    /\ IF ~offlineShown
       THEN /\ notices' = Append(notices, IF everConnected THEN "Lost" ELSE "Cannot")
            /\ UNCHANGED offlineShown
       ELSE UNCHANGED <<offlineShown, notices>>
    /\ phase' = "OFFLINE"
    /\ subscribed' = FALSE
    /\ hist' = (IF hist # <<>> /\ hist[Len(hist)] = "L" THEN hist ELSE Append(hist, "L"))
    /\ UNCHANGED <<pc, exitCode, opts, call, requested, topicFilter, payloadFilter, maxMessages,
                   messageCount, reconnectCount, everConnected, delivered, stdout,
                   lines, subscribes, endRequests, signals, errors>>

\* the 'offline' handler with the two wordings exchanged
OnOffline_WordingSwapped ==
    /\ pc = "running"
    /\ Dbg
    /\ IF ~offlineShown
       THEN /\ offlineShown' = TRUE
            /\ notices' = Append(notices, IF everConnected THEN "Cannot" ELSE "Lost")
       ELSE UNCHANGED <<offlineShown, notices>>
    /\ phase' = "OFFLINE"
    /\ subscribed' = FALSE
    /\ hist' = (IF hist # <<>> /\ hist[Len(hist)] = "L" THEN hist ELSE Append(hist, "L"))
    /\ UNCHANGED <<pc, exitCode, opts, call, requested, topicFilter, payloadFilter, maxMessages,
                   messageCount, reconnectCount, everConnected, delivered, stdout,
                   lines, subscribes, endRequests, signals, errors>>

\* the 'offline' handler choosing the wording by the reconnect attempts made
OnOffline_WordingByAttempts ==
    /\ pc = "running"
    /\ Dbg
    /\ IF ~offlineShown
       THEN /\ offlineShown' = TRUE
            /\ notices' = Append(notices, IF reconnectCount > 0 THEN "Lost" ELSE "Cannot")
       ELSE UNCHANGED <<offlineShown, notices>>
    /\ phase' = "OFFLINE"
    /\ subscribed' = FALSE
    /\ hist' = (IF hist # <<>> /\ hist[Len(hist)] = "L" THEN hist ELSE Append(hist, "L"))
    /\ UNCHANGED <<pc, exitCode, opts, call, requested, topicFilter, payloadFilter, maxMessages,
                   messageCount, reconnectCount, everConnected, delivered, stdout,
                   lines, subscribes, endRequests, signals, errors>>

\* client.on('offline')
OnOffline ==
    /\ pc = "running"
    /\ Dbg
    /\ IF ~offlineShown
       THEN /\ offlineShown' = TRUE
            /\ notices' = Append(notices, IF everConnected THEN "Lost" ELSE "Cannot")
       ELSE UNCHANGED <<offlineShown, notices>>
    /\ phase' = "OFFLINE"
    /\ subscribed' = FALSE
    /\ hist' = (IF hist # <<>> /\ hist[Len(hist)] = "L" THEN hist ELSE Append(hist, "L"))
    /\ UNCHANGED <<pc, exitCode, opts, call, requested, topicFilter, payloadFilter, maxMessages,
                   messageCount, reconnectCount, everConnected, delivered, stdout,
                   lines, subscribes, endRequests, signals, errors>>

\* the 'message' handler writing the newest message first
OnMessage_NewestFirst(m) ==
    /\ pc = "running"
    /\ phase = "CONNECTED"
    /\ subscribed
    /\ Len(delivered) < MaxDeliveries
    /\ delivered' = Append(delivered, m)
    /\ Dbg
    /\ IF Passes(m)
       THEN /\ stdout' = <<FormatMessage(m)>> \o stdout
            /\ messageCount' = messageCount + 1
            /\ endRequests' = (IF LimitReached(messageCount + 1)
                               THEN endRequests + 1 ELSE endRequests)
       ELSE UNCHANGED <<stdout, messageCount, endRequests>>
    /\ UNCHANGED <<pc, exitCode, opts, call, requested, subscribed, topicFilter, payloadFilter, maxMessages,
                   reconnectCount, everConnected, offlineShown, stderr, subscribes,
                   phase, hist, signals, errors>>

\* the 'message' handler counting the messages it drops as well
OnMessage_CountsDropped(m) ==
    /\ pc = "running"
    /\ phase = "CONNECTED"
    /\ subscribed
    /\ Len(delivered) < MaxDeliveries
    /\ delivered' = Append(delivered, m)
    /\ Dbg
    /\ IF Passes(m)
       THEN /\ stdout' = Append(stdout, FormatMessage(m))
            /\ messageCount' = messageCount + 1
            /\ endRequests' = (IF LimitReached(messageCount + 1)
                               THEN endRequests + 1 ELSE endRequests)
       ELSE /\ messageCount' = messageCount + 1
            /\ UNCHANGED <<stdout, endRequests>>
    /\ UNCHANGED <<pc, exitCode, opts, call, requested, subscribed, topicFilter, payloadFilter, maxMessages,
                   reconnectCount, everConnected, offlineShown, stderr, subscribes,
                   phase, hist, signals, errors>>

\* client.on('message')
OnMessage(m) ==
    /\ pc = "running"
    /\ phase = "CONNECTED"
    /\ subscribed
    /\ Len(delivered) < MaxDeliveries
    /\ delivered' = Append(delivered, m)
    /\ Dbg
    /\ IF Passes(m)
       THEN /\ stdout' = Append(stdout, FormatMessage(m))
            /\ messageCount' = messageCount + 1
            /\ endRequests' = (IF LimitReached(messageCount + 1)
                               THEN endRequests + 1 ELSE endRequests)
       ELSE UNCHANGED <<stdout, messageCount, endRequests>>
    /\ UNCHANGED <<pc, exitCode, opts, call, requested, subscribed, topicFilter, payloadFilter, maxMessages,
                   reconnectCount, everConnected, offlineShown, stderr, subscribes,
                   phase, hist, signals, errors>>

\* shutdown writing its status line with console.log, that is to process.stdout
OnSignal_ConsoleLog ==
    /\ pc = "running"
    /\ signals < MaxSignals
    /\ signals' = signals + 1
    /\ Dbg
    /\ stdout' = Append(stdout, <<<<"D">>, <<>>>>)
    /\ endRequests' = endRequests + 1
    /\ UNCHANGED <<pc, exitCode, opts, call, requested, subscribed, closure, delivered, stderr,
                   subscribes, phase, hist, errors>>

\* shutdown, registered for SIGINT and SIGTERM
OnSignal ==
    /\ pc = "running"
    /\ signals < MaxSignals
    /\ signals' = signals + 1
    /\ Dbg
    /\ Write("Disconnecting", 1)
    /\ endRequests' = endRequests + 1
    /\ UNCHANGED <<pc, exitCode, opts, call, requested, subscribed, closure, delivered, stdout, notices, subscribes,
                   phase, hist, errors>>

\* the callback handed to client.end: the client confirmed the disconnect
OnEndConfirmed ==
    /\ pc = "running"
    /\ endRequests > 0
    /\ Exit(0)
    /\ UNCHANGED <<opts, call, requested, subscribed, closure, delivered, stdout, notices, lines, dbgWritten,
          subscribes,
                   endRequests, phase, hist, signals, errors>>

Subscribed == \E err \in BOOLEAN : OnSubscribed(err)
Error == \E hasStack \in BOOLEAN : OnError(hasStack)
Message == \E m \in FewMessages : OnMessage(m)

\* every event but the confirmation of the disconnect
Handlers ==
    \/ Start
    \/ OnConnect
    \/ Subscribed
    \/ OnReconnect
    \/ Error
    \/ OnClose
    \/ OnOffline
    \/ Message
    \/ OnSignal

Next ==
    \/ Handlers
    \/ OnEndConfirmed

\* the connection lifecycle, the subscriptions, the limit and the shutdown
Spec == Init /\ [][Next]_vars

\* Every event that can be delivered is eventually handled; nothing obliges the
\* client to confirm a disconnect, and connect() arms no timer of its own.
FairSpec == Init /\ [][Next]_vars /\ WF_vars(Handlers)

(* ------------------- the filter pipeline on its own -------------------- *)

FilterInit ==
    /\ pc = "init"
    /\ exitCode = NoExit
    /\ optCount = 0
    /\ optRetained \in {"true", "false", "undefined"}
    /\ optFilter \in Patterns
    /\ optPayloadFilter \in Patterns
    /\ verbose = FALSE
    /\ optQos = "undefined"
    /\ tlsFiles = "none"
    /\ topicFilter = NullFilter
    /\ payloadFilter = NullFilter
    /\ maxMessages = Infinity
    /\ messageCount = 0
    /\ reconnectCount = 0
    /\ everConnected = FALSE
    /\ offlineShown = FALSE
    /\ delivered = <<>>
    /\ stdout = <<>>
    /\ notices = <<>>
    /\ lines = [k \in LineKinds |-> 0]
    /\ dbgWritten = FALSE
    /\ requested = <<>>
    /\ subscribes = 0
    /\ subscribed = FALSE
    /\ endRequests = 0
    /\ phase = "INIT"
    /\ hist = <<>>
    /\ signals = 0
    /\ errors = 0
    /\ call = NoCall

AnyMessage == \E m \in Messages : OnMessage(m)

FilterNext ==
    \/ Start
    \/ OnConnect
    \/ Subscribed
    \/ AnyMessage

\* every filter configuration against every message of the universe
FilterSpec == FilterInit /\ [][FilterNext]_vars

(* ------------------------ the subscriptions on their own --------------- *)

SubscribeInit ==
    /\ pc = "init"
    /\ exitCode = NoExit
    /\ optCount \in {0, 1}
    /\ optRetained = "undefined"
    /\ optFilter = UndefinedPattern
    /\ optPayloadFilter = UndefinedPattern
    /\ verbose = FALSE
    /\ optQos \in {"undefined", "0", "1", "2"}
    /\ tlsFiles = "none"
    /\ topicFilter = NullFilter
    /\ payloadFilter = NullFilter
    /\ maxMessages = Infinity
    /\ messageCount = 0
    /\ reconnectCount = 0
    /\ everConnected = FALSE
    /\ offlineShown = FALSE
    /\ delivered = <<>>
    /\ stdout = <<>>
    /\ notices = <<>>
    /\ lines = [k \in LineKinds |-> 0]
    /\ dbgWritten = FALSE
    /\ requested = <<>>
    /\ subscribes = 0
    /\ subscribed = FALSE
    /\ endRequests = 0
    /\ phase = "INIT"
    /\ hist = <<>>
    /\ signals = 0
    /\ errors = 0
    /\ call = NoCall

\* the whole lifecycle for every --qos
SubscribeSpec == SubscribeInit /\ [][Next]_vars

(* --------------------------- the setup on its own ---------------------- *)

SetupInit ==
    /\ pc = "init"
    /\ exitCode = NoExit
    /\ optCount \in {0, 1}
    /\ optRetained = "undefined"
    /\ optFilter \in Patterns
    /\ optPayloadFilter \in Patterns
    /\ verbose \in BOOLEAN
    /\ optQos = "undefined"
    /\ tlsFiles \in {"none", "readable", "unreadable"}
    /\ topicFilter = NullFilter
    /\ payloadFilter = NullFilter
    /\ maxMessages = Infinity
    /\ messageCount = 0
    /\ reconnectCount = 0
    /\ everConnected = FALSE
    /\ offlineShown = FALSE
    /\ delivered = <<>>
    /\ stdout = <<>>
    /\ notices = <<>>
    /\ lines = [k \in LineKinds |-> 0]
    /\ dbgWritten = FALSE
    /\ requested = <<>>
    /\ subscribes = 0
    /\ subscribed = FALSE
    /\ endRequests = 0
    /\ phase = "INIT"
    /\ hist = <<>>
    /\ signals = 0
    /\ errors = 0
    /\ call = NoCall

SetupNext ==
    \/ Start
    \/ OnConnect
    \/ Subscribed
    \/ OnSignal
    \/ OnEndConfirmed

\* every filter option and every state of the TLS files, up to the first handshake
SetupSpec == SetupInit /\ [][SetupNext]_vars

(* ---------------- the configuration resolver (config.js) ---------------- *)

\* JavaScript values: undefined, strings, numbers (by their decimal text) and booleans
Undefined == <<"undefined", "">>
JsString(s) == <<"string", s>>
JsNumber(s) == <<"number", s>>
JsBool(b) == <<"boolean", IF b THEN "true" ELSE "false">>
NaN == JsNumber("NaN")

\* the texts of the universe that parseInt(text, 10) reads as a number
DecimalTexts == {"1883", "1884", "8883", "8884"}
\* parseInt(v, 10) of a string
ParseInt(v) == IF v[2] \in DecimalTexts THEN JsNumber(v[2]) ELSE NaN

\* ENV_MAP: environment variable name to option key (three of the nine entries)
ENV_MAP == [MQTT_HOST |-> "host", MQTT_PORT |-> "port", MQTT_TLS |-> "tls"]
\* the environment variables of the universe; MQTT_COUNT is not in ENV_MAP
EnvNames == DOMAIN ENV_MAP \cup {"MQTT_COUNT"}
\* the option keys of the universe: two with a commander default, two without
OptionKeys == {"host", "port", "tls", "count"}

\* readEnvVars(dotEnv): process.env wins over the .env file, then port and tls
\* are converted
readEnvVars(processEnv, dotEnv) ==
    LET val(e) == IF processEnv[e] # Undefined THEN processEnv[e] ELSE dotEnv[e]
        config == [k \in OptionKeys |->
                     IF \E e \in DOMAIN ENV_MAP : ENV_MAP[e] = k /\ val(e) # Undefined
                     THEN val(CHOOSE e \in DOMAIN ENV_MAP : ENV_MAP[e] = k)
                     ELSE Undefined]
        withPort == [config EXCEPT !["port"] = IF @ # Undefined THEN ParseInt(@) ELSE @]
    IN  [withPort EXCEPT !["tls"] =
            IF @ # Undefined
            THEN JsBool(@ = JsString("true") \/ @ = JsString("1"))
            ELSE @]

\* { ...a, ...b } of two objects over the option keys
Spread(a, b) == [k \in OptionKeys |-> IF b[k] # Undefined THEN b[k] ELSE a[k]]

\* loadConfig: { ...fileConfig, ...envConfig }
loadConfig(fileConfig, processEnv, dotEnv) ==
    Spread(fileConfig, readEnvVars(processEnv, dotEnv))

\* the overlay with commander's default values not skipped
Overlay_DefaultsWin(baseConfig, cliOpts, source) ==
    [k \in OptionKeys |-> IF cliOpts[k] # Undefined THEN cliOpts[k] ELSE baseConfig[k]]
\* index.js: overlay of the explicitly passed CLI options on the base config
Overlay(baseConfig, cliOpts, source) ==
    [k \in OptionKeys |->
        IF cliOpts[k] # Undefined /\ source[k] # "default"
        THEN cliOpts[k] ELSE baseConfig[k]]

\* what program.opts() and program.getOptionValueSource() can hold for each key
CliChoices ==
    [host  |-> {<<JsString("localhost"), "default">>, <<JsString("cli.example"), "cli">>},
     port  |-> {<<JsString("1883"), "default">>, <<JsString("1884"), "cli">>},
     tls   |-> {<<Undefined, "undefined">>, <<JsBool(TRUE), "cli">>},
     count |-> {<<Undefined, "undefined">>, <<JsNumber("5"), "cli">>}]
\* what process.env can hold
ProcessEnvChoices ==
    [MQTT_HOST  |-> {Undefined, JsString("env.example")},
     MQTT_PORT  |-> {Undefined, JsString("8883"), JsString("abc")},
     MQTT_TLS   |-> {Undefined, JsString("1"), JsString("false")},
     MQTT_COUNT |-> {Undefined, JsString("9")}]
\* what the parsed .env file can hold
DotEnvChoices ==
    [MQTT_HOST  |-> {Undefined, JsString("dotenv.example")},
     MQTT_PORT  |-> {Undefined, JsString("8884")},
     MQTT_TLS   |-> {Undefined, JsString("true")},
     MQTT_COUNT |-> {Undefined}]
\* what the parsed config file can hold
FileChoices ==
    [host  |-> {Undefined, JsString("file.example")},
     port  |-> {Undefined, JsNumber("8885")},
     tls   |-> {Undefined, JsBool(TRUE)},
     count |-> {Undefined, JsNumber("7")}]

\* the objects whose entry for each key is one of the choices for that key
Objects(choices) ==
    {o \in [DOMAIN choices -> UNION {choices[k] : k \in DOMAIN choices}] :
        \A k \in DOMAIN choices : o[k] \in choices[k]}

(* ------------------- buildBrokerUrl (subscriber.js) --------------------- *)

\* JavaScript truthiness: undefined, '', 0, NaN and false are falsy
JsTruthy(v) ==
    CASE v[1] = "undefined" -> FALSE
      [] v[1] = "string" -> v[2] # ""
      [] v[1] = "number" -> v[2] \notin {"0", "NaN"}
      [] v[1] = "boolean" -> v[2] = "true"

\* the text a template literal makes of a string or a number
ToText(v) == v[2]

\* buildBrokerUrl with the protocol taken from opts.tls alone
buildBrokerUrl_TlsFlagOnly(o) ==
    LET protocol == IF JsTruthy(o.tls) THEN "mqtts" ELSE "mqtt"
        host == IF JsTruthy(o.host) THEN o.host ELSE JsString("localhost")
        port == IF JsTruthy(o.port) THEN o.port
                ELSE IF protocol = "mqtts" THEN JsNumber("8883") ELSE JsNumber("1883")
    IN  <<protocol, "://", ToText(host), ":", ToText(port)>>
\* buildBrokerUrl(opts): the URL as the pieces of the template literal
buildBrokerUrl(o) ==
    LET protocol == IF JsTruthy(o.tls) \/ JsTruthy(o.ca) \/ JsTruthy(o.cert)
                       \/ JsTruthy(o.key)
                    THEN "mqtts" ELSE "mqtt"
        host == IF JsTruthy(o.host) THEN o.host ELSE JsString("localhost")
        port == IF JsTruthy(o.port) THEN o.port
                ELSE IF protocol = "mqtts" THEN JsNumber("8883") ELSE JsNumber("1883")
    IN  <<protocol, "://", ToText(host), ":", ToText(port)>>

\* the connection options buildBrokerUrl can be handed by the resolver
UrlOpts ==
    [tls  : {Undefined, JsBool(TRUE), JsBool(FALSE)},
     ca   : {Undefined, JsString("/ca.pem")},
     cert : {Undefined, JsString("/cert.pem")},
     key  : {Undefined, JsString("/key.pem")},
     host : {Undefined, JsString(""), JsString("broker.example")},
     port : {Undefined, JsNumber("443"), JsString("1884"), JsNumber("0"), NaN}]

(* ---------------------- the pure functions, called ---------------------- *)

\* the state of the subscriber, which no call of a pure function touches
subscriber == <<pc, exitCode, opts, closure, delivered, stdout, stderr, dbgWritten,
                requested, subscribes, subscribed, endRequests, phase, hist, signals, errors>>

CallInit ==
    /\ pc = "init"
    /\ exitCode = NoExit
    /\ optCount = 0
    /\ optRetained = "undefined"
    /\ optFilter = UndefinedPattern
    /\ optPayloadFilter = UndefinedPattern
    /\ verbose = FALSE
    /\ optQos = "undefined"
    /\ tlsFiles = "none"
    /\ topicFilter = NullFilter
    /\ payloadFilter = NullFilter
    /\ maxMessages = Infinity
    /\ messageCount = 0
    /\ reconnectCount = 0
    /\ everConnected = FALSE
    /\ offlineShown = FALSE
    /\ delivered = <<>>
    /\ stdout = <<>>
    /\ notices = <<>>
    /\ lines = [k \in LineKinds |-> 0]
    /\ dbgWritten = FALSE
    /\ requested = <<>>
    /\ subscribes = 0
    /\ subscribed = FALSE
    /\ endRequests = 0
    /\ phase = "INIT"
    /\ hist = <<>>
    /\ signals = 0
    /\ errors = 0
    /\ call = NoCall

\* index.js lines 81-88: loadConfig, then the overlay of the CLI options
ResolveConfig ==
    /\ call = NoCall
    /\ \E cli \in Objects(CliChoices), processEnv \in Objects(ProcessEnvChoices),
          dotEnv \in Objects(DotEnvChoices), fileConfig \in Objects(FileChoices) :
         LET cliOpts == [k \in OptionKeys |-> cli[k][1]]
             source == [k \in OptionKeys |-> cli[k][2]]
         IN  call' = [fn |-> "resolveConfig",
                      cliOpts |-> cliOpts, source |-> source,
                      processEnv |-> processEnv, dotEnv |-> dotEnv,
                      fileConfig |-> fileConfig,
                      merged |-> Overlay(loadConfig(fileConfig, processEnv, dotEnv),
                                         cliOpts, source)]
    /\ UNCHANGED subscriber

\* connect() line 58: const brokerUrl = buildBrokerUrl(opts)
BuildBrokerUrl ==
    /\ call = NoCall
    /\ \E o \in UrlOpts :
         call' = [fn |-> "buildBrokerUrl", opts |-> o, url |-> buildBrokerUrl(o)]
    /\ UNCHANGED subscriber

ConfigNext ==
    \/ ResolveConfig

\* one resolution of the configuration, for every combination of the sources
ConfigSpec == CallInit /\ [][ConfigNext]_vars

UrlNext ==
    \/ BuildBrokerUrl

\* one call of buildBrokerUrl, for every set of connection options
UrlSpec == CallInit /\ [][UrlNext]_vars

(* ---------------------- the setup wizard (setup.js) --------------------- *)

\* what the command line can hold for the connection options and --config
WizardCliChoices ==
    [host     |-> {<<JsString("localhost"), "default">>, <<JsString("cli.example"), "cli">>},
     port     |-> {<<JsString("1883"), "default">>, <<JsString("1884"), "cli">>},
     tls      |-> {<<Undefined, "undefined">>, <<JsBool(TRUE), "cli">>},
     username |-> {<<Undefined, "undefined">>, <<JsString("alice"), "cli">>},
     password |-> {<<Undefined, "undefined">>, <<JsString("secret"), "cli">>},
     config   |-> {<<Undefined, "undefined">>, <<JsString("/etc/mqtt.json"), "cli">>}]

\* runSetupIfNeeded returns before the first prompt
SetupSkipped(globalExists, localExists, cliOpts) ==
    \/ globalExists
    \/ localExists
    \/ JsTruthy(cliOpts.username) \/ JsTruthy(cliOpts.password)

\* runSetupIfNeeded(cliOpts): the files present, the answer to the last prompt,
\* whether the prompts were shown and which file was written
RunSetupIfNeeded ==
    /\ call = NoCall
    /\ \E cli \in Objects(WizardCliChoices), globalExists \in BOOLEAN,
          localExists \in BOOLEAN, destination \in {"global", "local"} :
         LET cliOpts == [k \in DOMAIN WizardCliChoices |-> cli[k][1]]
             source == [k \in DOMAIN WizardCliChoices |-> cli[k][2]]
             skipped == SetupSkipped(globalExists, localExists, cliOpts)
         IN  call' = [fn |-> "runSetupIfNeeded",
                      cliOpts |-> cliOpts, source |-> source,
                      globalExists |-> globalExists, localExists |-> localExists,
                      prompted |-> ~skipped,
                      written |-> IF skipped THEN "none" ELSE destination]
    /\ UNCHANGED subscriber

WizardNext ==
    \/ RunSetupIfNeeded

\* one start of the program, for every command line and every set of files
WizardSpec == CallInit /\ [][WizardNext]_vars

(* ------------------------ the formatter (formatter.js) ------------------ *)

\* the payloads handed to the formatter: line feeds, the digit 1 and the letter x
FormatBytes == {10, 49, 120}
FormatPayloads == UNION {[1..n -> FormatBytes] : n \in 0..MaxPayloadLen}

\* JSON.parse(str) of a text of the universe succeeds on a decimal number with
\* white space around it; JsonParse is the number, by its digits
JsonValid(str) ==
    \E i, j \in 1..Len(str) :
        /\ i <= j
        /\ \A k \in 1..Len(str) : IF k < i \/ k > j THEN str[k] = "\n" ELSE str[k] = "1"
JsonParse(str) == SelectSeq(str, LAMBDA ch : ch = "1")
\* JSON.stringify of a number, with or without indentation
JsonStringify(digits) == digits
\* JSON.stringify of a string: quoted, the line feed escaped
RECURSIVE JsonEscape(_)
JsonEscape(str) ==
    IF str = <<>> THEN <<>>
    ELSE <<IF Head(str) = "\n" THEN "\\n" ELSE Head(str)>> \o JsonEscape(Tail(str))
JsonQuote(str) == <<"\"">> \o JsonEscape(str) \o <<"\"">>
\* colorizeJson of a number: the digits inside one colour
colorizeJson(src) == <<"<yellow>">> \o src \o <<"</yellow>">>

\* formatPayload(payload, opts)
formatPayload(payload, o) ==
    LET str == PayloadToString(payload)
    IN  IF o.raw THEN str
        ELSE IF JsonValid(str)
        THEN IF o.compact \/ o.outputJson
             THEN JsonStringify(JsonParse(str))
             ELSE colorizeJson(JsonStringify(JsonParse(str)))
        ELSE str

\* addLeftBorder(str, border): every line of str prefixed with the border
RECURSIVE addLeftBorderRest(_)
addLeftBorderRest(str) ==
    IF str = <<>> THEN <<>>
    ELSE (IF Head(str) = "\n" THEN <<"\n", "| ">> ELSE <<Head(str)>>)
         \o addLeftBorderRest(Tail(str))
addLeftBorder(str) == <<"| ">> \o addLeftBorderRest(str)

\* the header of a message: marker and topic, timestamp, metadata, joined by
\* two spaces
Header(o) ==
    <<"> topic">>
    \o (IF o.timestamp THEN <<"  ", "12:00:00">> ELSE <<>>)
    \o (IF o.verbose THEN <<"  ", "(qos:0 1B)">> ELSE <<>>)

\* formatMessage(topic, payload, packet, opts): the text, character by character
formatMessage(payload, o) ==
    IF o.outputJson
    THEN <<"{", "payload:">>
         \o (IF JsonValid(PayloadToString(payload))
             THEN JsonStringify(JsonParse(PayloadToString(payload)))
             ELSE JsonQuote(PayloadToString(payload)))
         \o <<"}">>
    ELSE IF o.compact
    THEN Header(o) \o <<"  ">> \o formatPayload(payload, o)
    ELSE Header(o) \o <<"\n">> \o addLeftBorder(formatPayload(payload, o))

\* the output options: --raw, --compact, --output-json, --no-timestamp, --verbose
FormatOpts ==
    [raw : BOOLEAN, compact : BOOLEAN, outputJson : BOOLEAN, timestamp : BOOLEAN,
     verbose : BOOLEAN]

\* the 'message' handler, line 179: formatMessage(topic, payload, packet, opts)
CallFormatMessage ==
    /\ call = NoCall
    /\ \E payload \in FormatPayloads, o \in FormatOpts :
         call' = [fn |-> "formatMessage", payload |-> payload, opts |-> o,
                  output |-> formatMessage(payload, o)]
    /\ UNCHANGED subscriber

FormatNext ==
    \/ CallFormatMessage

\* one call of formatMessage, for every payload and every set of output options
FormatSpec == CallInit /\ [][FormatNext]_vars

(* ----------------------- the .env parser (config.js) -------------------- *)

\* the characters of a .env file: a letter, '=', '#', space, the two quotes,
\* line feed and carriage return
EnvChars == {"a", "=", "#", " ", "\"", "'", "\n", "\r"}
EnvContents == UNION {[1..n -> EnvChars] : n \in 0..MaxEnvLen}

\* the white space String.prototype.trim removes
IsSpace(ch) == ch \in {" ", "\t", "\r", "\n"}
RECURSIVE TrimStart(_)
TrimStart(s) == IF s # <<>> /\ IsSpace(Head(s)) THEN TrimStart(Tail(s)) ELSE s
RECURSIVE TrimEnd(_)
TrimEnd(s) ==
    IF s # <<>> /\ IsSpace(s[Len(s)]) THEN TrimEnd(SubSeq(s, 1, Len(s) - 1)) ELSE s
\* String.prototype.trim
Trim(s) == TrimEnd(TrimStart(s))

\* String.prototype.indexOf, counted from 1; 0 when ch does not occur (-1 in JS)
IndexOf(s, ch) ==
    IF \E i \in 1..Len(s) : s[i] = ch
    THEN CHOOSE i \in 1..Len(s) : s[i] = ch /\ \A j \in 1..(i - 1) : s[j] # ch
    ELSE 0

\* content.split('\n')
RECURSIVE SplitLines(_)
SplitLines(s) ==
    IF IndexOf(s, "\n") = 0 THEN <<s>>
    ELSE <<SubSeq(s, 1, IndexOf(s, "\n") - 1)>>
         \o SplitLines(SubSeq(s, IndexOf(s, "\n") + 1, Len(s)))

\* vars[key] = val on a map held as a set of <<key, value>> pairs
Put(map, key, val) == {p \in map : p[1] # key} \cup {<<key, val>>}

\* if (/^["']/.test(val) && val.endsWith(val[0])) val = val.slice(1, -1)
StripQuotes(val) ==
    IF val # <<>> /\ val[1] \in {"\"", "'"} /\ val[Len(val)] = val[1]
    THEN SubSeq(val, 2, Len(val) - 1) ELSE val

\* the body of the loop of readDotEnv for one raw line
ParseLine(map, raw) ==
    LET line == Trim(raw)
        eq == IndexOf(line, "=")
    IN  IF line = <<>> \/ Head(line) = "#" THEN map
        ELSE IF eq = 0 THEN map
        ELSE Put(map, Trim(SubSeq(line, 1, eq - 1)),
                 StripQuotes(Trim(SubSeq(line, eq + 1, Len(line)))))

RECURSIVE ParseLines(_, _)
ParseLines(map, rawLines) ==
    IF rawLines = <<>> THEN map
    ELSE ParseLines(ParseLine(map, Head(rawLines)), Tail(rawLines))

\* readDotEnv on a file that was read: the map of the variables
parseDotEnv(content) == ParseLines({}, SplitLines(content))

\* readDotEnv(): the .env file is absent (readFile throws, {} is returned) or
\* holds one of the contents
ReadDotEnv ==
    /\ call = NoCall
    /\ \/ call' = [fn |-> "readDotEnv", present |-> FALSE, content |-> <<>>,
                  vars |-> {}]
       \/ \E content \in EnvContents :
            call' = [fn |-> "readDotEnv", present |-> TRUE, content |-> content,
                     vars |-> parseDotEnv(content)]
    /\ UNCHANGED subscriber

DotEnvNext ==
    \/ ReadDotEnv

\* one reading of the .env file, for every content
DotEnvSpec == CallInit /\ [][DotEnvNext]_vars

(* -------------------- the config file search (config.js) ---------------- *)

\* the config file candidates: join(homedir(), '.mqtttailrc.json'),
\* join(homedir(), '.mqtttailrc'), join(process.cwd(), '.mqtttailrc.json'),
\* and the path given to --config
ConfigFiles == {"~/.mqtttailrc.json", "~/.mqtttailrc", "./.mqtttailrc.json", "/etc/mqtt.json"}
\* a candidate cannot be read, is not JSON, holds the JSON null, or holds an object
FileStates == {"unreadable", "malformed", "null", "object"}

\* the candidates of readConfigFile(filePath), in the order they are tried
Candidates(filePath) ==
    IF filePath # Undefined
    THEN <<filePath[2]>>
    ELSE <<"~/.mqtttailrc.json", "~/.mqtttailrc", "./.mqtttailrc.json">>

\* {} over the option keys
EmptyRecord == [k \in OptionKeys |-> Undefined]
\* JSON.parse of the object a file holds: each file names a host of its own
JsonOfFile(name) == [EmptyRecord EXCEPT !["host"] = JsString(name)]
\* JSON.parse of the text null
JsNull == <<"null", "">>

\* what a call gives its caller: a value, or an exception
Return(v) == [threw |-> FALSE, value |-> v]
Throw == [threw |-> TRUE, value |-> Undefined]

\* the loop of readConfigFile with JSON.parse outside the try block
RECURSIVE readCandidates_ParseOutsideTry(_, _)
readCandidates_ParseOutsideTry(candidates, fs) ==
    IF candidates = <<>> THEN Return(EmptyRecord)
    ELSE CASE fs[Head(candidates)] = "unreadable" ->
                  readCandidates_ParseOutsideTry(Tail(candidates), fs)
           [] fs[Head(candidates)] = "malformed" -> Throw
           [] fs[Head(candidates)] = "null" -> Return(JsNull)
           [] fs[Head(candidates)] = "object" -> Return(JsonOfFile(Head(candidates)))
\* the loop of readConfigFile: readFile or JSON.parse throws, the catch block
\* goes on to the next candidate; {} after the last
RECURSIVE readCandidates(_, _)
readCandidates(candidates, fs) ==
    IF candidates = <<>> THEN Return(EmptyRecord)
    ELSE CASE fs[Head(candidates)] = "unreadable" ->
                  readCandidates(Tail(candidates), fs)
           [] fs[Head(candidates)] = "malformed" ->
                  readCandidates(Tail(candidates), fs)
           [] fs[Head(candidates)] = "null" -> Return(JsNull)
           [] fs[Head(candidates)] = "object" -> Return(JsonOfFile(Head(candidates)))

\* readConfigFile(filePath)
readConfigFile(filePath, fs) == readCandidates(Candidates(filePath), fs)

\* readDotEnv: {} when the file cannot be read, else its variables
DotEnvOf(readable) ==
    [e \in EnvNames |-> IF readable /\ e = "MQTT_PORT" THEN JsString("8884") ELSE Undefined]

\* { ...fileConfig }: null spreads to nothing
SpreadOf(v) == IF v = JsNull THEN EmptyRecord ELSE v

\* loadConfig(configFile) on a file system: Promise.all rejects when one of the
\* two readers throws
LoadConfig ==
    /\ call = NoCall
    /\ \E filePath \in {Undefined, JsString("/etc/mqtt.json")},
          fs \in [ConfigFiles -> FileStates], dotEnvReadable \in BOOLEAN :
         LET file == readConfigFile(filePath, fs)
             noEnv == [e \in EnvNames |-> Undefined]
         IN  call' = [fn |-> "loadConfig", filePath |-> filePath, fs |-> fs,
                      dotEnvReadable |-> dotEnvReadable,
                      threw |-> file.threw,
                      config |-> IF file.threw THEN EmptyRecord
                                 ELSE loadConfig(SpreadOf(file.value), noEnv,
                                                 DotEnvOf(dotEnvReadable))]
    /\ UNCHANGED subscriber

LoadNext ==
    \/ LoadConfig

\* one call of loadConfig, for every state of the candidate files
LoadSpec == CallInit /\ [][LoadNext]_vars

(* ---------------- buildConnectOptions (subscriber.js) ------------------- *)

\* the TLS files in the order buildConnectOptions reads them
TlsFileKeys == <<"ca", "cert", "key">>

\* the options buildConnectOptions and buildBrokerUrl are both handed
ConnectOpts ==
    [tls  : {Undefined, JsBool(TRUE), JsBool(FALSE)},
     ca   : {Undefined, JsString(""), JsString("/ca.pem")},
     cert : {Undefined, JsString("/cert.pem")},
     key  : {Undefined, JsString("/key.pem")},
     host : {Undefined},
     port : {Undefined, JsNumber("443")},
     username : {Undefined, JsString("alice")},
     password : {Undefined, JsString("secret")},
     clientId : {Undefined}]

\* readFile(path): the content of the file as a Buffer
BufferOf(path) == <<"buffer", path[2]>>

\* buildConnectOptions with the TLS block entered on opts.tls alone
buildConnectOptions_TlsFlagOnly(o, readable) ==
    LET secure == JsTruthy(o.tls)
        wanted(i) == secure /\ JsTruthy(o[TlsFileKeys[i]])
        failed(i) == wanted(i) /\ ~readable[TlsFileKeys[i]]
        firstFailed == IF \E i \in 1..3 : failed(i)
                       THEN CHOOSE i \in 1..3 : failed(i) /\ \A j \in 1..(i - 1) : ~failed(j)
                       ELSE 0
        material(i) == IF wanted(i) THEN BufferOf(o[TlsFileKeys[i]]) ELSE Undefined
    IN  [threw |-> firstFailed # 0,
         read |-> {TlsFileKeys[i] : i \in {i \in 1..3 :
                      wanted(i) /\ (firstFailed = 0 \/ i <= firstFailed)}},
         value |-> IF firstFailed # 0 THEN Undefined
                   ELSE [clientId |-> IF JsTruthy(o.clientId) THEN o.clientId
                                      ELSE JsString("mqtt-tail-random"),
                         clean |-> TRUE,
                         reconnectPeriod |-> 2000,
                         connectTimeout |-> 10000,
                         username |-> IF JsTruthy(o.username) THEN o.username
                                      ELSE Undefined,
                         password |-> IF JsTruthy(o.password) THEN o.password
                                      ELSE Undefined,
                         rejectUnauthorized |-> IF secure THEN JsBool(TRUE)
                                                ELSE Undefined,
                         ca |-> material(1), cert |-> material(2),
                         key |-> material(3)]]
\* buildConnectOptions(opts): the options for the client, the files it tried to
\* read on the way, or the rejection of a readFile
buildConnectOptions(o, readable) ==
    LET secure == JsTruthy(o.tls) \/ JsTruthy(o.ca) \/ JsTruthy(o.cert)
                     \/ JsTruthy(o.key)
        wanted(i) == secure /\ JsTruthy(o[TlsFileKeys[i]])
        failed(i) == wanted(i) /\ ~readable[TlsFileKeys[i]]
        firstFailed == IF \E i \in 1..3 : failed(i)
                       THEN CHOOSE i \in 1..3 : failed(i) /\ \A j \in 1..(i - 1) : ~failed(j)
                       ELSE 0
        material(i) == IF wanted(i) THEN BufferOf(o[TlsFileKeys[i]]) ELSE Undefined
    IN  [threw |-> firstFailed # 0,
         read |-> {TlsFileKeys[i] : i \in {i \in 1..3 :
                      wanted(i) /\ (firstFailed = 0 \/ i <= firstFailed)}},
         value |-> IF firstFailed # 0 THEN Undefined
                   ELSE [clientId |-> IF JsTruthy(o.clientId) THEN o.clientId
                                      ELSE JsString("mqtt-tail-random"),
                         clean |-> TRUE,
                         reconnectPeriod |-> 2000,
                         connectTimeout |-> 10000,
                         username |-> IF JsTruthy(o.username) THEN o.username
                                      ELSE Undefined,
                         password |-> IF JsTruthy(o.password) THEN o.password
                                      ELSE Undefined,
                         rejectUnauthorized |-> IF secure THEN JsBool(TRUE)
                                                ELSE Undefined,
                         ca |-> material(1), cert |-> material(2),
                         key |-> material(3)]]

\* connect() lines 58-61: the broker URL and the connect options of one
\* options record
BuildConnectOptions ==
    /\ call = NoCall
    /\ \E o \in ConnectOpts, readable \in [{"ca", "cert", "key"} -> BOOLEAN] :
         LET built == buildConnectOptions(o, readable)
         IN  call' = [fn |-> "buildConnectOptions", opts |-> o,
                      readable |-> readable, url |-> buildBrokerUrl(o),
                      threw |-> built.threw, read |-> built.read,
                      connectOpts |-> built.value]
    /\ UNCHANGED subscriber

ConnectOptsNext ==
    \/ BuildConnectOptions

\* the broker URL and the connect options, for every options record and every
\* state of the TLS files
ConnectOptsSpec == CallInit /\ [][ConnectOptsNext]_vars

(* ------------------------------- claims -------------------------------- *)

\* the run ended through a client.end callback that only the limit requested
ExitedByLimit == pc = "exited" /\ exitCode = 0 /\ signals = 0

\* C1: with --count N >= 1 the message channel never holds more than N lines,
\* and a run the limit ended holds exactly N.
C1_ForwardsExactlyN ==
    optCount >= 1 =>
        /\ Len(stdout) <= optCount
        /\ (ExitedByLimit => Len(stdout) = optCount)

\* C2: once a disconnect was requested (signal or limit) no later step writes
\* to the message channel or counts a message.
C2_NoMessageAfterShutdown ==
    [][endRequests > 0 => (stdout' = stdout /\ messageCount' = messageCount)]_vars

\* C3: after two signals (and no limit) the client was asked to disconnect
\* exactly once and one shutdown line was written.
C3_TwoSignalsOneDisconnect ==
    (signals >= 2 /\ ~LimitReached(messageCount)) =>
        (endRequests = 1 /\ lines["Disconnecting"] = 1)

\* C4: whatever the triggers and their order, a trigger that comes after the
\* shutdown began requests no further disconnect and writes no further
\* shutdown line.
C4_ShutdownIdempotent ==
    [][endRequests > 0 =>
        (endRequests' = endRequests
         /\ lines'["Disconnecting"] = lines["Disconnecting"])]_vars

\* C5: once shutdown began the process eventually exits, whether or not the
\* client confirms the disconnect.
C5_ShutdownEventuallyExits == (endRequests > 0) ~> (pc = "exited")

\* C6: a run the limit ended shows the N message lines and exactly one
\* shutdown status line.
C6_LimitWritesShutdownLine ==
    ExitedByLimit => (Len(stdout) = optCount /\ lines["Disconnecting"] = 1)

\* the notices as handshakes "H" and offline notices "L"
RECURSIVE Shape(_)
Shape(s) ==
    IF s = <<>> THEN <<>>
    ELSE <<(IF Head(s) \in {"Connected", "Reconnected"} THEN "H" ELSE "L")>>
         \o Shape(Tail(s))

\* C7: between two handshakes (or before the first) exactly one offline
\* notice is on the status channel if the connection was lost at all, however
\* many offline and reconnect events came: the notices follow the handshakes
\* and the unbroken offline intervals one for one.
C7_OneOfflineNoticePerInterval == Shape(notices) = hist

\* offline, a reconnect attempt and offline again, all after the one handshake
C7_Witness ==
    /\ hist = <<"H", "L">>
    /\ phase = "OFFLINE"
    /\ reconnectCount >= 1
    /\ notices = <<"Connected", "Lost">>

\* C8: "Connected" is written once, for the first handshake; "Reconnected"
\* once for every later handshake and never for the first.
C8_ConnectedOnceThenReconnected ==
    LET h == CountOf(hist, {"H"})
        shown == Restrict(notices, {"Connected", "Reconnected"})
    IN  /\ Len(shown) = h
        /\ \A i \in 1..Len(shown) :
              shown[i] = (IF i = 1 THEN "Connected" ELSE "Reconnected")

\* a second handshake happened
C8_Witness ==
    /\ CountOf(hist, {"H"}) >= 2
    /\ CountOf(notices, {"Reconnected"}) >= 1
    /\ phase = "CONNECTED"

\* C9: handshake, connection lost, handshake, no message in between: the
\* notices are "Connected", one "Lost", one "Reconnected", in that order.
C9_LostThenReconnected ==
    (hist = <<"H", "L", "H">> /\ delivered = <<>>) =>
        notices = <<"Connected", "Lost", "Reconnected">>

\* the scenario ran, with a reconnect attempt while offline
C9_Witness ==
    /\ hist = <<"H", "L", "H">>
    /\ delivered = <<>>
    /\ reconnectCount >= 1
    /\ phase = "CONNECTED"

\* a filter option that configures no filter
NoFilter(pattern) == pattern.tag \in {"null", "undefined"} \/ pattern.src = <<>>

\* the three stages as the claim states them, on the options
Eligible(m) ==
    /\ (optRetained # "false" \/ ~m.retain)
    /\ (NoFilter(optFilter) \/ RegExpTest(RegExpOf(optFilter.src), m.topic))
    /\ (NoFilter(optPayloadFilter)
        \/ RegExpTest(RegExpOf(optPayloadFilter.src), PayloadToString(m.payload)))

\* C10: a delivered message is written and counted if and only if it passes
\* the retained stage, the topic filter and the payload filter; a message
\* failing a stage leaves the message channel and the count as they were.
C10_ForwardedIffAllStagesPass ==
    [][delivered' # delivered =>
        LET m == delivered'[Len(delivered')]
        IN  IF Eligible(m)
            THEN /\ stdout' = Append(stdout, FormatMessage(m))
                 /\ messageCount' = messageCount + 1
            ELSE /\ stdout' = stdout
                 /\ messageCount' = messageCount]_vars

\* both filters configured; one message was dropped and one forwarded
C10_Witness ==
    /\ ~topicFilter.isNull
    /\ ~payloadFilter.isNull
    /\ Len(delivered) >= 2
    /\ Len(stdout) = 1
    /\ messageCount = 1

\* the step delivered a message and forwarded it
Forwarded ==
    /\ delivered' # delivered
    /\ stdout' = Append(stdout, FormatMessage(delivered'[Len(delivered')]))
    /\ messageCount' = messageCount + 1

\* the topic and payload filters both let m through
FiltersPass(m) ==
    /\ (NoFilter(optFilter) \/ RegExpTest(RegExpOf(optFilter.src), m.topic))
    /\ (NoFilter(optPayloadFilter)
        \/ RegExpTest(RegExpOf(optPayloadFilter.src), PayloadToString(m.payload)))

\* C11 as stated: a retained message is forwarded exactly when retained
\* messages are allowed, whatever the topic and payload filters say.
C11_RetainedIffAllowed ==
    [][(delivered' # delivered /\ delivered'[Len(delivered')].retain) =>
        (Forwarded <=> optRetained # "false")]_vars

\* C11 amended: a retained message is dropped whenever retained messages are
\* not allowed, whatever the filters say; when they are allowed it is
\* forwarded exactly when the topic and payload filters let it through.
C11_RetainedThenFilters ==
    [][(delivered' # delivered /\ delivered'[Len(delivered')].retain) =>
        LET m == delivered'[Len(delivered')]
        IN  /\ optRetained = "false" => (stdout' = stdout /\ messageCount' = messageCount)
            /\ optRetained # "false" => (Forwarded <=> FiltersPass(m))
            /\ ~Forwarded => (stdout' = stdout /\ messageCount' = messageCount)]_vars

\* retained messages are allowed; one was forwarded and one stopped by a filter
C11_Witness ==
    /\ optRetained # "false"
    /\ Len(delivered) = 2
    /\ \A i \in 1..Len(delivered) : delivered[i].retain
    /\ Len(stdout) = 1

\* C12 as stated: after a subscribe failure the process has exited with code
\* 1 and the message channel of the run is empty.
C12_SubscribeFailureNothingForwarded ==
    lines["SubscribeError"] > 0 =>
        (pc = "exited" /\ exitCode = 1 /\ stdout = <<>>)

\* C12 amended: a subscribe failure ends the process with code 1 at once, so
\* the request is not retried and nothing is forwarded afterwards; if no
\* earlier subscribe request of the run was granted, nothing was forwarded in
\* the run at all.
C12_SubscribeFailureIsFatal ==
    lines["SubscribeError"] > 0 =>
        /\ pc = "exited"
        /\ exitCode = 1
        /\ lines["SubscribeError"] = 1
        /\ (lines["Blank"] = 0 => stdout = <<>>)

\* the first subscribe request of the run failed
C12_Witness ==
    /\ lines["SubscribeError"] = 1
    /\ lines["Blank"] = 0
    /\ CountOf(hist, {"H"}) = 1
    /\ pc = "exited"

\* one of the two filter options is a string that is no regular expression
Malformed(pattern) == pattern.tag = "string" /\ ~SyntaxValid(pattern.src)
InvalidPattern == Malformed(optFilter) \/ Malformed(optPayloadFilter)

C14_UnreadableTlsIsHandled ==
    (pc # "init" /\ tlsFiles = "unreadable") =>
        /\ pc = "exited"
        /\ exitCode = 1
        /\ phase = "INIT"
        /\ lines["Uncaught"] = 0

\* C15: output channel separation.  Every step that writes to process.stdout is
\* the 'message' handler forwarding the message it was handed: it appends exactly
\* the formatted text of that message, the message passed the three stages, and
\* the step writes no status line; every other handler (connection notices,
\* status and error lines, [debug] lines) leaves process.stdout untouched.
C15_StdoutOnlyForwardedMessages ==
    [][stdout' # stdout =>
          /\ Len(delivered') = Len(delivered) + 1
          /\ Passes(delivered'[Len(delivered')])
          /\ stdout' = Append(stdout, FormatMessage(delivered'[Len(delivered')]))
          /\ stderr' = stderr]_vars

\* a run that forwarded a message and wrote every sort of stderr text
C15_Witness ==
    /\ stdout # <<>>
    /\ notices # <<>>
    /\ dbgWritten
    /\ lines["Connecting"] > 0
    /\ lines["Watching"] > 0
    /\ lines["Error"] > 0
    /\ lines["Disconnecting"] > 0

\* C16: the exit code follows the cause that began the termination: once a
\* signal or the count limit has asked the client to disconnect, the process
\* ends with code 0, whatever callback fires afterwards.
C16_ExitCodeFollowsInitiator ==
    (pc = "exited" /\ endRequests > 0) => exitCode = 0

\* the value that the source of rank r holds for the key k in the call c, the
\* environment values converted as documented (port a number, tls a boolean);
\* rank 1 is the command line, 4 the config file
Converted(k, v) ==
    IF v = Undefined THEN Undefined
    ELSE IF k = "port" THEN ParseInt(v)
    ELSE IF k = "tls" THEN JsBool(v \in {JsString("true"), JsString("1")})
    ELSE v
EnvNameOf(k) == CHOOSE e \in EnvNames : e # "MQTT_COUNT" /\ ENV_MAP[e] = k
SourceValue(c, r, k) ==
    CASE r = 1 -> IF c.source[k] = "cli" THEN c.cliOpts[k] ELSE Undefined
      [] r = 2 -> IF k = "count" THEN Undefined
                  ELSE Converted(k, c.processEnv[EnvNameOf(k)])
      [] r = 3 -> IF k = "count" THEN Undefined
                  ELSE Converted(k, c.dotEnv[EnvNameOf(k)])
      [] r = 4 -> c.fileConfig[k]

\* C17: for every option key the merged value is the value of the
\* highest-priority source that defines the key (command line, process.env,
\* .env file, config file, in this order); a commander default is no source, so
\* it never replaces a value of the environment, the .env file or the config file.
C17_HighestPrioritySourceWins ==
    call.fn = "resolveConfig" =>
        \A k \in OptionKeys : \A r \in 1..4 :
            (/\ SourceValue(call, r, k) # Undefined
             /\ \A q \in 1..(r - 1) : SourceValue(call, q, k) = Undefined)
            => call.merged[k] = SourceValue(call, r, k)

\* the host comes from the .env file although commander holds its default and
\* the config file names another host; the port comes from process.env although
\* the .env file and the config file name others
C17_Witness ==
    /\ call.fn = "resolveConfig"
    /\ call.source["host"] = "default"
    /\ call.processEnv["MQTT_HOST"] = Undefined
    /\ call.dotEnv["MQTT_HOST"] # Undefined
    /\ call.fileConfig["host"] # Undefined
    /\ call.merged["host"] = call.dotEnv["MQTT_HOST"]
    /\ call.source["port"] = "default"
    /\ call.processEnv["MQTT_PORT"] = JsString("8883")
    /\ call.dotEnv["MQTT_PORT"] # Undefined
    /\ call.fileConfig["port"] # Undefined
    /\ call.merged["port"] = JsNumber("8883")
    /\ call.source["tls"] = "cli"
    /\ call.processEnv["MQTT_TLS"] = JsString("false")
    /\ call.merged["tls"] = JsBool(TRUE)

\* an option is set (given) when it holds a value JavaScript takes as true:
\* a non-empty string, a number other than 0, or true
IsSet(v) == v \notin {Undefined, JsString(""), JsNumber("0"), NaN, JsBool(FALSE)}

\* C18: buildBrokerUrl returns '<scheme>://<host>:<port>': the scheme is mqtts
\* when any of tls, ca, cert, key is set and mqtt otherwise, the host is the
\* configured host or localhost, the port is the configured port when one is
\* given, with or without TLS, and otherwise 8883 for mqtts and 1883 for mqtt.
C18_BrokerUrlShape ==
    call.fn = "buildBrokerUrl" =>
        LET o == call.opts
            secure == IsSet(o.tls) \/ IsSet(o.ca) \/ IsSet(o.cert) \/ IsSet(o.key)
        IN  /\ Len(call.url) = 5
            /\ call.url[1] = (IF secure THEN "mqtts" ELSE "mqtt")
            /\ call.url[2] = "://"
            /\ call.url[3] = (IF IsSet(o.host) THEN o.host[2] ELSE "localhost")
            /\ call.url[4] = ":"
            /\ IsSet(o.port) => call.url[5] = o.port[2]
            /\ ~IsSet(o.port) => call.url[5] = (IF secure THEN "8883" ELSE "1883")

\* only a client key file makes the connection secure, and the explicit port
\* replaces the TLS default
C18_Witness ==
    /\ call.fn = "buildBrokerUrl"
    /\ call.opts.tls = Undefined
    /\ call.opts.ca = Undefined
    /\ call.opts.cert = Undefined
    /\ call.opts.key # Undefined
    /\ call.opts.port = JsNumber("443")
    /\ call.url = <<"mqtts", "://", "broker.example", ":", "443">>

\* C19: the wizard is skipped (no prompt, no file written) whenever a connection
\* flag (host, port, TLS, user name or password) was passed on the command line
\* or the global config file exists.
C19_WizardSkippedWithConnectionFlags ==
    (/\ call.fn = "runSetupIfNeeded"
     /\ \/ \E k \in {"host", "port", "tls", "username", "password"} :
              call.source[k] = "cli"
        \/ call.globalExists)
    => (~call.prompted /\ call.written = "none")

\* C20: in compact mode the text formatMessage returns for a message holds no
\* line feed, whatever the payload.
C20_CompactOutputIsOneLine ==
    (call.fn = "formatMessage" /\ call.opts.compact) =>
        \A i \in 1..Len(call.output) : call.output[i] # "\n"

\* the .env rules as documented, line by line: the lines of a text, whether a
\* line contributes, and the key and the value it contributes
EnvLine(content, i) == Trim(SplitLines(content)[i])
Contributes(line) == line # <<>> /\ line[1] # "#" /\ IndexOf(line, "=") # 0
KeyOf(line) == Trim(SubSeq(line, 1, IndexOf(line, "=") - 1))
Unquoted(v) ==
    IF Len(v) >= 2 /\ v[1] = v[Len(v)] /\ v[1] \in {"\"", "'"}
    THEN SubSeq(v, 2, Len(v) - 1) ELSE v
ValueOf(line) == Unquoted(Trim(SubSeq(line, IndexOf(line, "=") + 1, Len(line))))
\* the map the rules give: for each key, what its last contributing line says
Documented(content) ==
    LET n == Len(SplitLines(content))
    IN  {<<KeyOf(EnvLine(content, i)), ValueOf(EnvLine(content, i))>> :
            i \in {i \in 1..n :
                     /\ Contributes(EnvLine(content, i))
                     /\ \A j \in (i + 1)..n :
                          Contributes(EnvLine(content, j))
                          => KeyOf(EnvLine(content, j)) # KeyOf(EnvLine(content, i))}}
\* the text with every line feed written as carriage return, line feed
RECURSIVE ToCRLF(_)
ToCRLF(s) ==
    IF s = <<>> THEN <<>>
    ELSE (IF Head(s) = "\n" THEN <<"\r", "\n">> ELSE <<Head(s)>>) \o ToCRLF(Tail(s))

\* C21: the map read from a .env text is the one its lines give: blank lines,
\* '#' lines and lines without '=' give nothing, every other line gives the
\* trimmed text before the first '=' as key and the trimmed text after it, less
\* one pair of matching surrounding quotes, as value; the text with CRLF line
\* ends gives the same map; the empty text gives the empty map.
C21_DotEnvParsedAsDocumented ==
    (call.fn = "readDotEnv" /\ call.present) =>
        /\ call.vars = Documented(call.content)
        /\ (\A i \in 1..Len(call.content) : call.content[i] # "\r")
              => parseDotEnv(ToCRLF(call.content)) = call.vars
        /\ call.content = <<>> => call.vars = {}

\* C22 as stated: offlineShown is true only while the phase is OFFLINE.
C22_OfflineShownOnlyWhileOffline == offlineShown => phase = "OFFLINE"

\* C22 as amended: offlineShown is true exactly from the first offline event of
\* an interval until the next handshake, reconnect attempts included: it is
\* false in INIT, before the first loss and in CONNECTED, where the handshake
\* reset it, and it stays true in OFFLINE and in the CONNECTING of the retries.
C22_OfflineShownUntilHandshake ==
    /\ offlineShown <=> (hist # <<>> /\ hist[Len(hist)] = "L")
    /\ offlineShown => phase \in {"OFFLINE", "CONNECTING"}
    /\ phase \in {"INIT", "CONNECTED"} => ~offlineShown

\* a loss, a reconnect attempt made with the flag still set, and the handshake
\* that reset it
C22_Witness ==
    /\ hist = <<"H", "L", "H">>
    /\ reconnectCount = 1
    /\ phase = "CONNECTED"
    /\ ~offlineShown

\* C23: a step enters CONNECTED exactly when it issues a subscribe request; the
\* request is one batch naming every topic handed to connect(), each with the
\* configured QoS; no other step issues a subscribe request.
C23_OneBatchSubscribePerHandshake ==
    [][IF phase # "CONNECTED" /\ phase' = "CONNECTED"
       THEN /\ requested' = Append(requested, subscribeTopics)
            /\ DOMAIN subscribeTopics = {topics[i] : i \in 1..Len(topics)}
            /\ \A t \in DOMAIN subscribeTopics :
                 subscribeTopics[t].qos = (IF optQos = "undefined" THEN 0
                                           ELSE IF optQos = "0" THEN 0
                                           ELSE IF optQos = "1" THEN 1 ELSE 2)
       ELSE requested' = requested]_vars

\* the first handshake and a re-handshake after a loss, each with its batch, at
\* QoS 2
C23_Witness ==
    /\ hist = <<"H", "L", "H">>
    /\ optQos = "2"
    /\ Len(requested) = 2
    /\ requested[2] = [t \in {"s/+", "c/#"} |-> [qos |-> 2]]

\* C24: a process that a subscribe failure ended (exit code 1) had asked the
\* client for the graceful disconnect before it exited.
C24_SubscribeFailureDisconnectsFirst ==
    (pc = "exited" /\ lines["SubscribeError"] > 0) =>
        (exitCode = 1 /\ endRequests > 0)

\* a step of one of the handlers of the transient connection events
TransientStep == Error \/ OnOffline \/ OnClose \/ OnReconnect

\* C25: no error, offline, close, disconnect or reconnect event ends the process
\* or asks for a disconnect; a step that ends the process is the confirmation
\* of a requested disconnect or the report of a setup or subscribe error, and a
\* step that asks for a disconnect is a signal or the forwarding of the message
\* that reaches the limit.
C25_TransientEventsNeverFatal ==
    [][/\ TransientStep => UNCHANGED <<pc, exitCode, endRequests>>
       /\ pc' # pc /\ pc' = "exited" =>
             \/ endRequests > 0 /\ exitCode' = 0
             \/ \E k \in {"SubscribeError", "InvalidRegex", "Uncaught"} :
                  lines'[k] = lines[k] + 1 /\ exitCode' = 1
       /\ endRequests' # endRequests =>
             \/ signals' = signals + 1
             \/ stdout' # stdout /\ LimitReached(messageCount')]_vars

\* an error, a loss, a repeated offline event and a reconnect attempt, and the
\* controller still runs with no disconnect requested
C25_Witness ==
    /\ pc = "running"
    /\ endRequests = 0
    /\ errors = MaxErrors
    /\ reconnectCount = MaxReconnects
    /\ hist = <<"H", "L">>
    /\ phase = "CONNECTING"

\* C26: a signal in CONNECTING, CONNECTED or OFFLINE asks the client for the
\* disconnect, the confirmation of the disconnect ends the process with code 0,
\* and once a disconnect was asked for no later event makes the controller
\* subscribe or announce a connection again.
C26_SignalShutsDownForGood ==
    [][/\ signals' = signals + 1 =>
             (phase \in {"CONNECTING", "CONNECTED", "OFFLINE"}
              /\ endRequests' = endRequests + 1)
       /\ OnEndConfirmed => exitCode' = 0
       /\ endRequests > 0 => (requested' = requested /\ notices' = notices)]_vars

\* the formatted texts of the messages of the log s that pass the three stages,
\* in the order of s
RECURSIVE PassingTexts(_)
PassingTexts(s) ==
    IF s = <<>> THEN <<>>
    ELSE (IF Passes(Head(s)) THEN <<FormatMessage(Head(s))>> ELSE <<>>)
         \o PassingTexts(Tail(s))

\* C27: the message channel holds, in delivery order, one line for each
\* delivered message that passes the filters and nothing else: nothing is
\* reordered, merged or batched.
C27_OutputInDeliveryOrder == pc # "init" => stdout = PassingTexts(delivered)

\* two different messages forwarded in the order of their delivery, with a
\* dropped message among the deliveries
C27_Witness ==
    /\ Len(stdout) = 2
    /\ stdout[1] # stdout[2]
    /\ Len(delivered) = 3
    /\ ~Passes(delivered[2])

\* C28: messageCount is the number of lines on the message channel; the counter
\* moves by one, together with one write, and a delivery that a filter stage
\* drops leaves the counter and the channel as they were.
C28_CountEqualsLinesWritten ==
    /\ messageCount = Len(stdout)
    /\ pc # "init" => messageCount = Len(SelectSeq(delivered, Passes))

\* messages were forwarded and one was dropped
C28_Witness ==
    /\ messageCount = 2
    /\ Len(stdout) = 2
    /\ Len(delivered) = 3
    /\ \E i \in 1..3 : ~Passes(delivered[i])

\* C29: a step that writes an offline notice writes the "cannot reach" wording
\* exactly when everConnected is false, which is exactly when no handshake has
\* succeeded in the run, and the "lost connection" wording otherwise.
C29_WordingFollowsEverConnected ==
    [][(notices' # notices /\ notices'[Len(notices')] \in {"Lost", "Cannot"}) =>
          /\ notices'[Len(notices')] = "Cannot" <=> ~everConnected
          /\ everConnected <=> CountOf(hist, {"H"}) > 0]_vars

\* the broker was unreachable at first, then reached, then lost: both wordings
C29_Witness == notices = <<"Cannot", "Connected", "Lost">>

\* C30: a step that moves the reconnect counter moves it by one and leaves the
\* forwarded count, everConnected and offlineShown as they were, issues no
\* subscribe and no disconnect request, does not end the process and writes
\* no notice, status line or message.
C30_ReconnectOnlyCounts ==
    [][reconnectCount' # reconnectCount =>
          /\ reconnectCount' = reconnectCount + 1
          /\ UNCHANGED <<messageCount, everConnected, offlineShown, requested,
                         subscribes, endRequests, pc, exitCode, stdout, notices,
                         lines, topicFilter, payloadFilter, maxMessages>>]_vars

\* a reconnect attempt made after a message was forwarded and the connection
\* lost: the flags and the count are as the loss left them
C30_Witness ==
    /\ reconnectCount = 1
    /\ phase = "CONNECTING"
    /\ everConnected
    /\ offlineShown
    /\ messageCount = 1
    /\ Len(requested) = 1
    /\ endRequests = 0

\* a step of one of the lifecycle handlers other than the message handler
LifecycleStep == OnConnect \/ OnOffline \/ OnReconnect \/ Error \/ OnClose

\* C31: only the message handler changes messageCount: a handshake, a loss, a
\* reconnect attempt, an error or a close leaves the count and the limit as
\* they were, the count never goes down, and the step that forwards a message
\* asks for the disconnect exactly when the total forwarded in the whole run
\* has reached the limit.
C31_CountSurvivesReconnection ==
    [][/\ LifecycleStep => UNCHANGED <<messageCount, maxMessages>>
       /\ messageCount' # messageCount =>
             (delivered' # delivered /\ messageCount' = messageCount + 1)
       /\ pc = "running" => maxMessages' = maxMessages
       /\ delivered' # delivered =>
             (endRequests' # endRequests
                <=> /\ Passes(delivered'[Len(delivered')])
                    /\ maxMessages # Infinity
                    /\ Len(SelectSeq(delivered', Passes)) >= maxMessages)]_vars

\* one message forwarded, the connection lost and made again: the count is
\* still one, short of the limit of two
C31_Witness ==
    /\ hist = <<"H", "L", "H">>
    /\ reconnectCount = 1
    /\ phase = "CONNECTED"
    /\ maxMessages = 2
    /\ messageCount = 1
    /\ endRequests = 0

\* the candidate i of the call c can be read and parsed as JSON
Usable(c, i) == c.fs[Candidates(c.filePath)[i]] \in {"null", "object"}
\* the first usable candidate of the call c, 0 when there is none
FirstUsable(c) ==
    IF \E i \in 1..Len(Candidates(c.filePath)) : Usable(c, i)
    THEN CHOOSE i \in 1..Len(Candidates(c.filePath)) :
            Usable(c, i) /\ \A j \in 1..(i - 1) : ~Usable(c, j)
    ELSE 0

\* C32: loadConfig never throws; the config file it uses is the first candidate
\* (the three default places in order, or the --config path alone) that can be
\* read and parsed, unreadable and malformed ones being skipped; with no such
\* candidate the file gives nothing, and an unreadable .env gives nothing.
C32_LoadConfigNeverThrows ==
    call.fn = "loadConfig" =>
        /\ ~call.threw
        /\ LET i == FirstUsable(call)
               name == Candidates(call.filePath)[i]
           IN  call.config["host"] =
                   (IF i # 0 /\ call.fs[name] = "object" THEN JsString(name)
                    ELSE Undefined)
        /\ call.config["port"] =
               (IF call.dotEnvReadable THEN JsNumber("8884") ELSE Undefined)
        /\ \A k \in OptionKeys \ {"host", "port"} : call.config[k] = Undefined

\* the first default candidate is malformed, the second unreadable, the third
\* is used; the .env file cannot be read
C32_Witness ==
    /\ call.fn = "loadConfig"
    /\ call.filePath = Undefined
    /\ call.fs["~/.mqtttailrc.json"] = "malformed"
    /\ call.fs["~/.mqtttailrc"] = "unreadable"
    /\ call.fs["./.mqtttailrc.json"] = "object"
    /\ ~call.dotEnvReadable
    /\ call.config["host"] = JsString("./.mqtttailrc.json")
    /\ call.config["port"] = Undefined

\* C33: the scheme of the broker URL and the TLS parameters agree.  With mqtt
\* no TLS file is read and the connect options hold no rejectUnauthorized and
\* no TLS material.  With mqtts every configured file among ca, cert and key
\* is read, in this order, and when all can be read the connect options hold
\* rejectUnauthorized = true and the content of exactly the configured files.
\* The build fails only under mqtts, on a configured file that cannot be read.
C33_SchemeAgreesWithTlsOptions ==
    call.fn = "buildConnectOptions" =>
        LET o == call.opts
            configured == {f \in {"ca", "cert", "key"} : IsSet(o[f])}
        IN  /\ call.url[1] \in {"mqtt", "mqtts"}
            /\ call.url[1] = "mqtt" =>
                  /\ ~call.threw
                  /\ call.read = {}
                  /\ call.connectOpts.rejectUnauthorized = Undefined
                  /\ \A f \in {"ca", "cert", "key"} : call.connectOpts[f] = Undefined
            /\ (call.url[1] = "mqtts" /\ ~call.threw) =>
                  /\ call.read = configured
                  /\ call.connectOpts.rejectUnauthorized = JsBool(TRUE)
                  /\ \A f \in {"ca", "cert", "key"} :
                       call.connectOpts[f] =
                           (IF f \in configured THEN <<"buffer", o[f][2]>>
                            ELSE Undefined)
            /\ call.threw <=>
                  (call.url[1] = "mqtts"
                   /\ \E f \in configured : ~call.readable[f])

\* a client key alone, readable, makes the URL mqtts and the options verified,
\* with the key loaded and nothing else
C33_Witness ==
    /\ call.fn = "buildConnectOptions"
    /\ call.opts.tls = Undefined
    /\ call.opts.ca = JsString("")
    /\ call.opts.cert = Undefined
    /\ call.opts.key = JsString("/key.pem")
    /\ ~call.threw
    /\ call.url[1] = "mqtts"
    /\ call.read = {"key"}
    /\ call.connectOpts.rejectUnauthorized = JsBool(TRUE)
    /\ call.connectOpts.key = <<"buffer", "/key.pem">>

====
